---- MODULE Spec2Model ----
(***************************************************************************)
(* Model of the stock_prediction_demo pipeline.                            *)
(*                                                                         *)
(* The repository holds two copies of the program:                         *)
(*   src/src/read_and_plot.py + src/src/plot_model.py   (impl = "src/src") *)
(*   src/read_and_plot.py     + src/plot_model.py       (impl = "src")     *)
(* Each read_and_plot.py imports the plot_model.py beside it.  The copy    *)
(* under src/ has no empty-result check and no try/except in the fetcher,  *)
(* no sort in plot_model, and a fixed horizon of 30 days in its entry      *)
(* point.  Its definitions carry the prefix legacy_.                       *)
(*                                                                         *)
(* Dates are day numbers.  A provider Close is a count of sixteenths       *)
(* (18 = 1.125): such values and their products with 100 are exact binary  *)
(* floats, so numpy's round(2) = rint(x * 100) / 100 is modelled exactly.  *)
(* A cleaned Close is a count of cents.  The coefficients of the least     *)
(* squares fit are not modelled; the model keeps the (t, Close) pairs the  *)
(* regression is given and the time indices and dates it is evaluated on.  *)
(***************************************************************************)
EXTENDS Integers, Sequences, FiniteSets, TLC

\* ---- bounds -------------------------------------------------------------
MaxRows == 2
MaxAhead == 2

\* ---- program constants --------------------------------------------------
FOLDER_NAME == "data"
LegacyDaysAhead == 30

Symbols == {"AAPL", "MSFT"}
Impls == {"src/src", "src"}

\* pandas' missing markers: NaT in a datetime column, NaN in a float column
NaT == -1
NaN == -1

\* The closes a provider table can quote, and the market calendar: the i-th
\* trading day (the market is closed every third day, so the calendar has
\* gaps: 1, 2, 4, 5, 7, ...).
CloseVals == {19}
TradingDay(i) == i + ((i - 1) \div 2)

get_filepath(symbol) == <<FOLDER_NAME, symbol>>

Paths == {get_filepath(s) : s \in Symbols}

\* ---- CSV text ------------------------------------------------------------
\* A cell of the file is text: a date string, a decimal string, an empty
\* field, or something that is neither.
DateCell(d) == <<"date", d>>
NumCell(v) == <<"num", v>>
EmptyCell == <<"empty", 0>>
JunkCell == <<"junk", 0>>

\* A file on disk: absent, or present with or without its header line.
Absent == [exists |-> FALSE, header |-> FALSE, rows |-> <<>>]
CsvFile(rows) == [exists |-> TRUE, header |-> TRUE, rows |-> rows]
Truncated == [exists |-> TRUE, header |-> FALSE, rows |-> <<>>]

Prefix(seq, n) == [i \in 1..n |-> seq[i]]

\* DataFrame.to_csv(index=False) after reset_index: one text row per table
\* row, the Date as a date string, the Close as a decimal string (NaN as an
\* empty field).
FormatRow(r) ==
    [Date |-> DateCell(r.Date),
     Close |-> IF r.Close = NaN THEN EmptyCell ELSE NumCell(r.Close)]

FormatTable(rows) == [i \in 1..Len(rows) |-> FormatRow(rows[i])]

\* What df.to_csv(filepath) leaves on disk.  It opens the file for writing
\* (truncating it) and then writes header and rows; wr is how far it gets:
\*   "ok"      everything is written
\*   "noopen"  the open fails, the old file is untouched
\*   "trunc"   the file is truncated and nothing reaches the disk
\*   "partial" header and the first wr.n rows reach the disk
to_csv(old, rows, wr) ==
    CASE wr.kind = "ok" -> CsvFile(FormatTable(rows))
      [] wr.kind = "noopen" -> old
      [] wr.kind = "trunc" -> Truncated
      [] OTHER -> CsvFile(Prefix(FormatTable(rows), wr.n))

WriteOutcomes(rows) ==
    {[kind |-> k, n |-> 0] : k \in {"ok", "noopen", "trunc"}}
        \cup {[kind |-> "partial", n |-> j] : j \in 0..(Len(rows) - 1)}

\* ---- provider ------------------------------------------------------------
\* yf.download: raises, or returns a table with one row per trading day of
\* the period, in date order (possibly zero rows, possibly NaN closes).
ProviderError == [kind |-> "error", rows |-> <<>>]
NoProvider == [kind |-> "none", rows |-> <<>>]

ProviderTables ==
    UNION {
        {[i \in 1..n |-> [Date |-> TradingDay(i), Close |-> c[i]]] :
            c \in [1..n -> CloseVals \cup {NaN}]}
        : n \in 0..MaxRows}

ProviderResults ==
    {ProviderError} \cup {[kind |-> "table", rows |-> t] : t \in ProviderTables}

\* ---- download_and_save_data ---------------------------------------------
\* Result of one call: the return value ("True", "False", or "raise" when an
\* exception leaves the function), and the folder and file afterwards.
\* mk: whether os.makedirs can create the folder when it is missing.
Outcome(ret, folder, file) == [ret |-> ret, folder |-> folder, file |-> file]

download_and_save_data(folder, old, mk, prov, wr) ==
    IF ~folder /\ ~mk
    THEN Outcome("raise", folder, old)
    ELSE IF prov.kind = "error"
    THEN Outcome("False", TRUE, old)
    ELSE IF Len(prov.rows) = 0
    THEN Outcome("False", TRUE, old)
    ELSE Outcome(IF wr.kind = "ok" THEN "True" ELSE "False",
                 TRUE, to_csv(old, prov.rows, wr))

legacy_download_and_save_data(folder, old, mk, prov, wr) ==
    IF ~folder /\ ~mk
    THEN Outcome("raise", folder, old)
    ELSE IF prov.kind = "error"
    THEN Outcome("raise", TRUE, old)
    ELSE Outcome(IF wr.kind = "ok" THEN "True" ELSE "raise",
                 TRUE, to_csv(old, prov.rows, wr))

Fetch(impl, folder, old, mk, prov, wr) ==
    IF impl = "src/src"
    THEN download_and_save_data(folder, old, mk, prov, wr)
    ELSE legacy_download_and_save_data(folder, old, mk, prov, wr)

\* ---- read_and_process_data ----------------------------------------------
\* pd.to_datetime (errors="raise"): a date string parses, an empty field
\* becomes NaT, anything else raises.
DateParses(cell) == cell[1] \in {"date", "empty"}
to_datetime(cell) == IF cell[1] = "date" THEN cell[2] ELSE NaT

\* Round2 cutting the digits off instead of rounding.
Round2_Truncate(v) == (25 * v) \div 4

\* numpy round(2) on a count of sixteenths v: rint(v * 100 / 16) cents, rint
\* rounding a half to the even neighbour.
Round2(v) ==
    LET q == 25 * v
        lo == q \div 4
        rem == q % 4
    IN  IF rem < 2 THEN lo
        ELSE IF rem > 2 THEN lo + 1
        ELSE IF lo % 2 = 0 THEN lo ELSE lo + 1

\* pd.to_numeric(errors="coerce").round(2): a decimal string becomes a
\* number, everything else NaN.
to_numeric(cell) == IF cell[1] = "num" THEN Round2(cell[2]) ELSE NaN

ParseRow(r) == [Date |-> to_datetime(r.Date), Close |-> to_numeric(r.Close)]

RECURSIVE dropna(_)
dropna(rows) ==
    IF rows = <<>> THEN <<>>
    ELSE IF Head(rows).Close = NaN THEN dropna(Tail(rows))
    ELSE <<Head(rows)>> \o dropna(Tail(rows))

\* Result of one call: ret is "table" (rows is the returned frame; a missing
\* file gives the empty frame) or "raise".
Loaded(rows) == [ret |-> "table", rows |-> rows]
LoadRaised == [ret |-> "raise", rows |-> <<>>]

read_and_process_data(file) ==
    IF ~file.exists THEN Loaded(<<>>)
    ELSE IF ~file.header THEN LoadRaised
    ELSE IF \E i \in 1..Len(file.rows) : ~DateParses(file.rows[i].Date)
    THEN LoadRaised
    ELSE Loaded(dropna([i \in 1..Len(file.rows) |-> ParseRow(file.rows[i])]))

\* ---- plot_model -----------------------------------------------------------
\* Order of df.sort_values("Date"): ascending, NaT last.
DateLeq(a, b) == b = NaT \/ (a # NaT /\ a <= b)

IndexOrders(n) ==
    {p \in [1..n -> 1..n] : \A i, j \in 1..n : p[i] = p[j] => i = j}

\* df.sort_values("Date").reset_index(drop=True).  The default sort kind is
\* not stable, so rows with equal dates may come out in either order: the
\* set of frames the call can return.
sort_values(rows) ==
    {s \in {[i \in 1..Len(rows) |-> rows[p[i]]] : p \in IndexOrders(Len(rows))} :
        \A i \in 1..(Len(s) - 1) : DateLeq(s[i].Date, s[i + 1].Date)}

NoPlot == [ret |-> "none", frame |-> <<>>, future_t |-> <<>>, future_dates |-> <<>>]
PlotRaised == [ret |-> "raise", frame |-> <<>>, future_t |-> <<>>, future_dates |-> <<>>]

\* FitAndExtrapolate with the date range starting at last_date itself.
FitAndExtrapolate_FromLastDate(rows, days_ahead) ==
    LET n == Len(rows)
    IN  IF n = 0 \/ days_ahead <= 0 \/ rows[n].Date = NaT THEN PlotRaised
        ELSE [ret |-> "ok",
              frame |-> [i \in 1..n |->
                           [Date |-> rows[i].Date, Close |-> rows[i].Close, t |-> i - 1]],
              future_t |-> [i \in 1..days_ahead |-> n + (i - 1)],
              future_dates |-> [i \in 1..days_ahead |-> rows[n].Date + (i - 1)]]

\* The body of plot_model once the row order is fixed.  frame: the rows with
\* the time index t each is given, in the order they are fitted and drawn;
\* future_t, future_dates: the time indices and dates of the forecast.
\* Fitting an empty frame, transforming an empty future_t (days_ahead <= 0)
\* and a date_range starting at NaT all raise.
FitAndExtrapolate(rows, days_ahead) ==
    LET n == Len(rows)
        last_t == n - 1
        last_date == rows[n].Date
    IN  IF n = 0 \/ days_ahead <= 0 THEN PlotRaised
        ELSE IF last_date = NaT THEN PlotRaised
        ELSE [ret |-> "ok",
              frame |-> [i \in 1..n |->
                           [Date |-> rows[i].Date, Close |-> rows[i].Close, t |-> i - 1]],
              future_t |-> [i \in 1..days_ahead |-> last_t + 1 + (i - 1)],
              future_dates |-> [i \in 1..days_ahead |-> last_date + 1 + (i - 1)]]

plot_model(rows, days_ahead) ==
    {FitAndExtrapolate(s, days_ahead) : s \in sort_values(rows)}

legacy_plot_model(rows, days_ahead) ==
    {FitAndExtrapolate(rows, days_ahead)}

Plot(impl, rows, days_ahead) ==
    IF impl = "src/src" THEN plot_model(rows, days_ahead)
    ELSE legacy_plot_model(rows, days_ahead)

\* ---- state ----------------------------------------------------------------
VARIABLES
    impl,        \* which copy of the program runs
    folder,      \* whether the data folder exists
    files,       \* the cache file at each path
    pc,          \* position of the entry point ("idle": no run in progress)
    symbol,      \* entry point: the symbol typed in
    success,     \* entry point: what download_and_save_data returned
    df,          \* the frame read_and_process_data returned last
    days_ahead,  \* entry point: the horizon
    plot,        \* what the last plot_model call computed
    last,        \* the last call of a function: name, symbol, result, inputs
    fetched,     \* the table this process saved with a successful fetch
    stages,      \* entry point: the stages run so far in this run
    msg          \* entry point: what the run printed when it stopped

vars == <<impl, folder, files, pc, symbol, success, df, days_ahead, plot, last,
          fetched, stages, msg>>

\* Cache files a run may find in the data folder: left by earlier runs, or
\* edited or reordered by hand since.
PriorFiles ==
    {Absent,
     CsvFile(<<[Date |-> DateCell(2), Close |-> NumCell(19)],
               [Date |-> DateCell(1), Close |-> NumCell(18)]>>),
     CsvFile(<<[Date |-> DateCell(1), Close |-> JunkCell],
               [Date |-> DateCell(2), Close |-> NumCell(18)]>>),
     CsvFile(<<[Date |-> DateCell(1), Close |-> NumCell(19)],
               [Date |-> JunkCell, Close |-> NumCell(18)]>>),
     CsvFile(<<[Date |-> EmptyCell, Close |-> NumCell(18)],
               [Date |-> DateCell(1), Close |-> NumCell(19)]>>),
     CsvFile(<<[Date |-> DateCell(1), Close |-> NumCell(18)],
               [Date |-> DateCell(1), Close |-> NumCell(19)]>>)}

\* A call: the function, its symbol, what it returned ("raise" for an
\* exception), the provider's answer (download) and days_ahead (plot).
NoCall == [fn |-> "none", sym |-> "", ret |-> "none", prov |-> NoProvider, arg |-> 0]

Call(fn, sym, ret, prov, arg) ==
    [fn |-> fn, sym |-> sym, ret |-> ret, prov |-> prov, arg |-> arg]

NothingFetched == [sym |-> "", rows |-> <<>>]

Init ==
    /\ impl \in Impls
    /\ files \in [Paths -> PriorFiles]
    /\ folder \in BOOLEAN
    /\ (\E p \in Paths : files[p].exists) => folder
    /\ pc = "idle"
    /\ symbol = ""
    /\ success = "none"
    /\ df = <<>>
    /\ days_ahead = 0
    /\ plot = NoPlot
    /\ last = NoCall
    /\ fetched = NothingFetched
    /\ stages = <<>>
    /\ msg = "none"

\* ---- the three functions ----------------------------------------------
\* One call download_and_save_data(s) and what it leaves behind.
Download(s, mk, prov, wr) ==
    LET path == get_filepath(s)
        o == Fetch(impl, folder, files[path], mk, prov, wr)
    IN  /\ folder' = o.folder
        /\ files' = [files EXCEPT ![path] = o.file]
        /\ last' = Call("download", s, o.ret,
                         IF o.folder THEN prov ELSE NoProvider, 0)
        /\ fetched' = IF o.ret = "True" THEN [sym |-> s, rows |-> prov.rows]
                       ELSE fetched
        /\ df' = <<>>
        /\ plot' = NoPlot
        /\ UNCHANGED impl

\* One call read_and_process_data(s).
Read(s) ==
    LET path == get_filepath(s)
        r == read_and_process_data(files[path])
    IN  /\ df' = r.rows
        /\ last' = Call("read", s, r.ret, NoProvider, 0)
        /\ plot' = NoPlot
        /\ UNCHANGED <<impl, folder, files, fetched>>

\* One call plot_model(df, symbol, k) on the frame read last.
Render(k) ==
    \E res \in Plot(impl, df, k) :
        /\ plot' = res
        /\ last' = Call("plot", last.sym, res.ret, NoProvider, k)
        /\ UNCHANGED <<impl, folder, files, df, fetched>>

\* os.makedirs(exist_ok=True) can only fail when the folder is missing.
MakedirsOutcomes == IF folder THEN {TRUE} ELSE BOOLEAN

\* A frame is at hand once read_and_process_data has returned one.
HasFrame == (last.fn = "read" /\ last.ret = "table") \/ last.fn = "plot"

\* The functions called on their own, from a session that imported the
\* module (pc = "called" once it has called one).  The entry point's
\* variables keep their initial values in such a session.
Session ==
    /\ pc' = "called"
    /\ UNCHANGED <<symbol, success, days_ahead, stages, msg>>

CallDownload ==
    /\ pc = "idle"
    /\ \E s \in Symbols, mk \in MakedirsOutcomes, prov \in ProviderResults :
        \E wr \in WriteOutcomes(prov.rows) : Download(s, mk, prov, wr)
    /\ Session

CallRead ==
    /\ pc \in {"idle", "called"}
    /\ \E s \in Symbols : Read(s)
    /\ Session

CallPlot ==
    /\ pc = "called"
    /\ HasFrame
    /\ \E k \in 0..MaxAhead : Render(k)
    /\ Session

\* The process ends: its variables are gone, the data folder stays.
Exit ==
    /\ pc \in {"called", "done"}
    /\ pc' = "idle"
    /\ symbol' = ""
    /\ success' = "none"
    /\ df' = <<>>
    /\ days_ahead' = 0
    /\ plot' = NoPlot
    /\ last' = NoCall
    /\ fetched' = NothingFetched
    /\ stages' = <<>>
    /\ msg' = "none"
    /\ UNCHANGED <<impl, folder, files>>

\* ---- the entry point ----------------------------------------------------
\* What the two prompts can be answered with: a symbol; a text that int()
\* parses (to n) or rejects.
HorizonInputs == [parses : BOOLEAN, n : 0..MaxAhead]

\* AfterFetch without the test of success.
AfterFetch_IgnoreSuccess(ret) == "load"

\* Where the entry point goes after each stage.
AfterFetch(ret) == IF ret = "True" THEN "load" ELSE "done"

AfterLoad(v, ret, rows) ==
    IF ret = "raise" \/ rows = <<>> THEN "done"
    ELSE IF v = "src/src" THEN "prompt" ELSE "plot"

Stop(m) ==
    /\ pc' = "done"
    /\ msg' = m

\* symbol = input(...).upper()
MainInput ==
    /\ pc = "idle"
    /\ \E s \in Symbols : symbol' = s
    /\ pc' = "fetch"
    /\ UNCHANGED <<impl, folder, files, success, df, days_ahead, plot, last,
                   fetched, stages, msg>>

\* success = download_and_save_data(symbol); if success: ... else: print
\* (the copy under src/ has no else branch).  An exception ends the run
\* with the interpreter's traceback.
MainFetch ==
    /\ pc = "fetch"
    /\ \E mk \in MakedirsOutcomes, prov \in ProviderResults :
        \E wr \in WriteOutcomes(prov.rows) : Download(symbol, mk, prov, wr)
    /\ stages' = Append(stages, "fetch")
    /\ success' = last'.ret
    /\ pc' = AfterFetch(last'.ret)
    /\ msg' = IF last'.ret = "True" THEN msg
              ELSE IF last'.ret = "raise" THEN "traceback"
              ELSE IF impl = "src/src" THEN "halted: download failed"
              ELSE "none"
    /\ UNCHANGED <<symbol, days_ahead>>

\* df = read_and_process_data(symbol); if not df.empty: ... else: print.
\* The copy under src/ goes on to plot_model(df, symbol, 30); the other
\* asks for the horizon first.
MainLoad ==
    /\ pc = "load"
    /\ Read(symbol)
    /\ stages' = Append(stages, "load")
    /\ pc' = AfterLoad(impl, last'.ret, df')
    /\ msg' = IF last'.ret = "raise" THEN "traceback"
              ELSE IF df' = <<>> THEN "halted: processing failed"
              ELSE msg
    /\ days_ahead' = IF pc' = "plot" THEN LegacyDaysAhead ELSE days_ahead
    /\ UNCHANGED <<symbol, success>>

\* days_ahead = int(input(...)): a text int() rejects raises ValueError.
MainPrompt ==
    /\ pc = "prompt"
    /\ stages' = Append(stages, "prompt")
    /\ \E inp \in HorizonInputs :
        IF inp.parses
        THEN pc' = "plot" /\ msg' = msg /\ days_ahead' = inp.n
        ELSE Stop("traceback") /\ days_ahead' = days_ahead
    /\ UNCHANGED <<impl, folder, files, symbol, success, df, plot, last, fetched>>

\* plot_model(df, symbol, days_ahead)
MainPlot ==
    /\ pc = "plot"
    /\ Render(days_ahead)
    /\ stages' = Append(stages, "render")
    /\ Stop(IF plot'.ret = "raise" THEN "traceback" ELSE "none")
    /\ UNCHANGED <<symbol, success, days_ahead>>

Next ==
    \/ CallDownload
    \/ CallRead
    \/ CallPlot
    \/ Exit
    \/ MainInput
    \/ MainFetch
    \/ MainLoad
    \/ MainPrompt
    \/ MainPlot

Spec == Init /\ [][Next]_vars


\* ---- properties -----------------------------------------------------------
Path(s) == get_filepath(s)

\* The step is a call of download_and_save_data.
DownloadStep == last.fn # "download" /\ last'.fn = "download"

ZeroRows(prov) == prov.kind = "table" /\ prov.rows = <<>>

Ascending(rows) ==
    \A i, j \in 1..Len(rows) : i < j => rows[i].Date <= rows[j].Date

DatesValid(rows) == \A i \in 1..Len(rows) : rows[i].Date # NaT

LatestDate(rows) ==
    CHOOSE d \in {rows[i].Date : i \in 1..Len(rows)} :
        \A i \in 1..Len(rows) : rows[i].Date <= d

\* c cents is a nearest hundredth of v sixteenths.
IsRounded2(v, c) == 25 * v - 4 * c <= 2 /\ 4 * c - 25 * v <= 2

\* The file read by the last read_and_process_data call.
FileRead == files[Path(last.sym)]

\* C1: when the provider returns a table with zero rows,
\* download_and_save_data returns false and no cache file is created or
\* modified.
C1_EmptyFetchLeavesCache ==
    [][(DownloadStep /\ ZeroRows(last'.prov))
         => (last'.ret = "False" /\ files' = files)]_vars

\* C2: no exception escapes download_and_save_data; every failure during the
\* call (provider error, folder creation, file write) ends in the return
\* value false.
C2_NoExceptionEscapes == last.fn = "download" => last.ret \in {"True", "False"}

\* C3: for any valid cache file, in any row order, read_and_process_data
\* returns a table with no null Close whose rows are sorted ascending by Date.
ValidCacheFile(f) ==
    /\ f.exists
    /\ f.header
    /\ \A i \in 1..Len(f.rows) :
        f.rows[i].Date[1] = "date" /\ f.rows[i].Close[1] \in {"num", "empty"}

C3_LoadedSortedNoNull ==
    (last.fn = "read" /\ ValidCacheFile(FileRead))
        => /\ last.ret = "table"
           /\ \A i \in 1..Len(df) : df[i].Close # NaN
           /\ Ascending(df)

StageOrders ==
    {<<>>, <<"fetch">>, <<"fetch", "load">>, <<"fetch", "load", "prompt">>,
     <<"fetch", "load", "prompt", "render">>, <<"fetch", "load", "render">>}

StageFailed ==
    \/ success \in {"False", "raise"}
    \/ (stages = <<"fetch", "load">> /\ (last.ret = "raise" \/ df = <<>>))
    \/ (stages # <<>> /\ stages[Len(stages)] = "prompt" /\ pc # "plot")
    \/ (last.fn = "plot" /\ last.ret = "raise")

C5_StagesInOrder ==
    (pc \notin {"idle", "called"})
        => /\ stages \in StageOrders
           /\ (Len(stages) >= 2 => success = "True")
           /\ (Len(stages) >= 3 => df # <<>>)
           /\ (StageFailed => (pc = "done" /\ msg # "none"))
           /\ (pc = "fetch" => stages = <<>>)
           /\ (pc = "load" => stages = <<"fetch">>)
           /\ (pc = "prompt" => stages = <<"fetch", "load">>)
           /\ (pc = "plot" => Len(stages) \in {2, 3} /\ "render" \notin
                                {stages[i] : i \in 1..Len(stages)})

C5_Witness ==
    /\ pc = "done"
    /\ stages = <<"fetch", "load">>
    /\ msg = "halted: processing failed"
    /\ impl = "src/src"

\* C6: round trip.  After a successful download_and_save_data(symbol) of a
\* table whose closes are all non-null, read_and_process_data(symbol) returns
\* as many rows, in the same order, each Close the fetched Close rounded to 2
\* decimals.
C6_RoundTrip ==
    (/\ last.fn = "read"
     /\ fetched.sym = last.sym
     /\ \A i \in 1..Len(fetched.rows) : fetched.rows[i].Close # NaN)
        => /\ last.ret = "table"
           /\ Len(df) = Len(fetched.rows)
           /\ \A i \in 1..Len(df) :
                /\ df[i].Date = fetched.rows[i].Date
                /\ IsRounded2(fetched.rows[i].Close, df[i].Close)

C6_Witness ==
    /\ last.fn = "read"
    /\ fetched.sym = last.sym
    /\ Len(fetched.rows) >= 2
    /\ \A i \in 1..Len(fetched.rows) : fetched.rows[i].Close # NaN
    /\ Len(df) = Len(fetched.rows)

\* C7: download_and_save_data never leaves a partial cache file: whenever the
\* call fails (returns false or raises), also while the table is being
\* written, the cache file is as it was before the call.
C7_FailureLeavesFile ==
    [][(DownloadStep /\ last'.ret # "True") => files' = files]_vars

\* C8: read_and_process_data recovers from unparsable fields row by row: for
\* an existing cache file with unparsable Close or Date values it returns
\* normally, with exactly the rows whose fields parse.
RowParses(r) == r.Date[1] = "date" /\ r.Close[1] = "num"

RECURSIVE ParsedRows(_)
ParsedRows(rows) ==
    IF rows = <<>> THEN <<>>
    ELSE IF RowParses(Head(rows))
    THEN <<[Date |-> Head(rows).Date[2], Close |-> Round2(Head(rows).Close[2])]>>
             \o ParsedRows(Tail(rows))
    ELSE ParsedRows(Tail(rows))

C8_RowLevelRecovery ==
    (last.fn = "read" /\ FileRead.exists /\ FileRead.header)
        => (last.ret = "table" /\ df = ParsedRows(FileRead.rows))

\* C9: for any non-empty table passed to plot_model, in any row order, time
\* index i goes to the row with the i-th earliest Date; the fitted series has
\* the length of the table and is in date order.
C9_IndexByDateRank ==
    (/\ last.fn = "plot"
     /\ Len(df) >= 1
     /\ last.arg >= 1
     /\ DatesValid(df))
        => /\ plot.ret = "ok"
           /\ Len(plot.frame) = Len(df)
           /\ Ascending(plot.frame)
           /\ \A i \in 1..Len(plot.frame) : plot.frame[i].t = i - 1

\* C10: a cache file changes only by a successful fetch for its symbol, which
\* replaces all of it by the full fetched table; failed fetches, loads, plots
\* and fetches for other symbols never change it.
C10_CacheLifecycle ==
    [][IF DownloadStep /\ last'.ret = "True"
       THEN files' = [files EXCEPT ![Path(last'.sym)] =
                                       CsvFile(FormatTable(last'.prov.rows))]
       ELSE files' = files]_vars

====
